---- MODULE Spec2Model ----
(***************************************************************************)
(* A model of the histogram engine: the histogram facade                   *)
(* (include/boost/histogram/histogram.hpp), the linearizer with storage    *)
(* rebuild under axis growth (include/boost/histogram/detail/linearize.hpp)*)
(* and the adaptive count storage nstore (detail/nstore.hpp).              *)
(*                                                                         *)
(* Sequences are 1-based: axis k of the code is axes_[k+1], storage offset *)
(* o of the code is storage_[o+1].                                         *)
(***************************************************************************)
EXTENDS Integers, Sequences, FiniteSets, TLC

VARIABLES
  axes_,      \* histogram::axes_   : sequence of axis records
  storage_,   \* histogram::storage_: sequence of bin counts
  last,       \* the last call on the histogram: operation, arguments, outcome
  nops        \* number of calls made so far (bounds the run)

hvars == <<axes_, storage_, last, nops>>

(***************************************************************************)
(* Bounds of the histogram model.                                          *)
(***************************************************************************)
MaxOps  == 2     \* calls per run
MaxDown == 1     \* fill values and at indices range over -MaxDown .. MaxUp
MaxUp   == 2

Values == (0 - MaxDown) .. MaxUp

(***************************************************************************)
(* Helpers on sequences.                                                   *)
(***************************************************************************)
Min(a, b) == IF a < b THEN a ELSE b
Max(a, b) == IF a < b THEN b ELSE a
Abs(a)    == IF a < 0 THEN 0 - a ELSE a

RECURSIVE SeqSum(_)
SeqSum(s) == IF s = <<>> THEN 0 ELSE s[1] + SeqSum(Tail(s))

Zeros(n) == [k \in 1..n |-> 0]

(***************************************************************************)
(* Axes.  An axis is an integer axis [min, min + n) with the options       *)
(* underflow (uf), overflow (of) and growth (grow).                        *)
(***************************************************************************)
Axis(lo, n, uf, of, grow) == [min |-> lo, n |-> n, uf |-> uf, of |-> of, grow |-> grow]

Bool2Int(b) == IF b THEN 1 ELSE 0

\* axis::traits::extend: number of internal bins, underflow/overflow included
extend(a) == a.n + Bool2Int(a.uf) + Bool2Int(a.of)

\* axis::traits::update: value -> (index, shift); a growable axis extends itself
\* in unit steps toward the value and reports by how much its lower edge
\* (shift < 0) or its upper edge (shift > 0) moved.
update(a, v) ==
  LET i == v - a.min IN
  IF 0 <= i /\ i < a.n THEN [axis |-> a, j |-> i, shift |-> 0]
  ELSE IF a.grow THEN
    IF i < 0 THEN [axis |-> [a EXCEPT !.min = v, !.n = a.n - i], j |-> 0, shift |-> i]
             ELSE [axis |-> [a EXCEPT !.n = i + 1], j |-> i, shift |-> i - a.n + 1]
  ELSE IF i < 0 THEN [axis |-> a, j |-> 0 - 1, shift |-> 0]
                ELSE [axis |-> a, j |-> a.n, shift |-> 0]

\* detail::bincount: the product of the extents
RECURSIVE bincount(_)
bincount(axes) ==
  IF axes = <<>> THEN 1 ELSE extend(axes[1]) * bincount(Tail(axes))

\* detail::axes_equal: element-wise equality of two axis collections
axes_equal(a, b) == a = b

(***************************************************************************)
(* optional_index and linearize.                                           *)
(***************************************************************************)
optional_index == [idx |-> 0, stride |-> 1]

\* optional_index::operator bool
IsValid(out) == out.stride > 0

\* linearize with the stride left out of the offset
linearize_nostride(out, axis_shape, j) ==
  [idx    |-> out.idx + j,
   stride |-> out.stride * (IF 0 <= j /\ j < axis_shape THEN axis_shape ELSE 0)]

\* idx is a std::size_t: with j < 0 the product j * stride wraps modulo 2^64 in
\* the code; that happens only together with stride' = 0, after which idx is
\* never read, so the model keeps the unwrapped integer.
linearize(out, axis_shape, j) ==
  [idx    |-> out.idx + j * out.stride,
   stride |-> out.stride * (IF 0 <= j /\ j < axis_shape THEN axis_shape ELSE 0)]

\* linearize_value with the index clamped into the extent of the axis
linearize_value_clamped(out, a, value) ==
  LET u == update(a, value)
      j == Max(0, Min(extend(u.axis) - 1, u.j + Bool2Int(a.uf)))
  IN  [out |-> linearize(out, extend(u.axis), j), shift |-> u.shift, axis |-> u.axis]

linearize_value(out, a, value) ==
  LET u == update(a, value)
      j == u.j + Bool2Int(a.uf)
  IN  [out |-> linearize(out, extend(u.axis), j), shift |-> u.shift, axis |-> u.axis]

\* linearize_index without the underflow offset
linearize_index_nooffset(out, a, j) ==
  linearize(out, extend(a), j)

linearize_index(out, a, j) ==
  linearize(out, extend(a), j + Bool2Int(a.uf))

\* has_growing_axis<A>
has_growing_axis(axes) == \E k \in 1..Len(axes) : axes[k].grow

(***************************************************************************)
(* args_to_index: the fold of linearize_value over the axes.  The result   *)
(* carries the (possibly grown) axes, the optional_index and the shifts.   *)
(***************************************************************************)
RECURSIVE ArgsLoop(_, _, _, _, _)
ArgsLoop(k, axes, args, out, shifts) ==
  IF k > Len(axes) THEN [axes |-> axes, idx |-> out, shifts |-> shifts]
  ELSE LET r == linearize_value(out, axes[k], args[k])
       IN  ArgsLoop(k + 1, [axes EXCEPT ![k] = r.axis], args, r.out,
                    [shifts EXCEPT ![k] = r.shift])

args_to_index(axes, args) ==
  ArgsLoop(1, axes, args, optional_index, Zeros(Len(axes)))

(***************************************************************************)
(* maybe_replace_storage.  data[k] = {idx, size, stride}.                  *)
(***************************************************************************)
\* the stride stored in data[k]: s starts at 1 and is multiplied by
\* n - |shift| after each axis
RECURSIVE DataStride(_, _, _)
DataStride(axes, shifts, k) ==
  IF k = 1 THEN 1
  ELSE DataStride(axes, shifts, k - 1) * (extend(axes[k - 1]) - Abs(shifts[k - 1]))

\* the size stored in data[k]
DataSize(axes, k) == extend(axes[k])

\* the offset ns without the translation by the lower-edge shift
RECURSIVE NewOffset_noshift(_, _, _, _)
NewOffset_noshift(axes, shifts, idx, k) ==
  IF k > Len(axes) THEN 0
  ELSE idx[k] * DataStride(axes, shifts, k)
       + NewOffset_noshift(axes, shifts, idx, k + 1)

\* ns - new_storage.begin() for the current data[].idx
RECURSIVE NewOffset(_, _, _, _)
NewOffset(axes, shifts, idx, k) ==
  IF k > Len(axes) THEN 0
  ELSE (idx[k] - Min(shifts[k], 0)) * DataStride(axes, shifts, k)
       + NewOffset(axes, shifts, idx, k + 1)

\* while (dit != last && dit->idx == dit->size) { dit->idx = 0; ++(++dit)->idx; }
RECURSIVE Carry(_, _, _)
Carry(axes, idx, k) ==
  IF k # Len(axes) /\ idx[k] = DataSize(axes, k)
  THEN Carry(axes, [idx EXCEPT ![k] = 0, ![k + 1] = @ + 1], k + 1)
  ELSE idx

\* for (const auto& x : storage) { ...; *ns = x; }
\* A write at or past new_storage.end() is recorded in oob; offs lists the
\* offsets ns written, one per old cell, in the order of the loop.
RECURSIVE ReplaceLoop(_, _, _, _, _, _)
ReplaceLoop(old, c, axes, shifts, idx, acc) ==
  IF c > Len(old) THEN acc
  ELSE LET ns   == NewOffset(axes, shifts, idx, 1)
           idx2 == Carry(axes, [idx EXCEPT ![1] = @ + 1], 1)
           acc2 == IF ns < Len(acc.st)
                   THEN [acc EXCEPT !.st[ns + 1] = old[c], !.offs = Append(@, ns)]
                   ELSE [acc EXCEPT !.oob = TRUE, !.offs = Append(@, ns)]
       IN  ReplaceLoop(old, c + 1, axes, shifts, idx2, acc2)

\* maybe_replace_storage that keeps the old storage
maybe_replace_storage_kept(storage, axes, shifts) ==
  [st |-> storage, oob |-> FALSE, offs |-> <<>>]

maybe_replace_storage(storage, axes, shifts) ==
  IF \A k \in 1..Len(shifts) : shifts[k] = 0
  THEN [st |-> storage, oob |-> FALSE, offs |-> <<>>]
  ELSE ReplaceLoop(storage, 1, axes, shifts, Zeros(Len(axes)),
                   [st |-> Zeros(bincount(axes)), oob |-> FALSE, offs |-> <<>>])

(***************************************************************************)
(* reduce_to: projection on the axes listed in the ascending sequence sel. *)
(***************************************************************************)
\* detail::shape_collector: the extents of all axes
Shape(axes) == [k \in 1..Len(axes) |-> extend(axes[k])]

\* product of shape[m] for m < k (and, with a mask, only the m with b[m])
RECURSIVE StrideOf(_, _, _)
StrideOf(shape, b, k) ==
  IF k = 1 THEN 1
  ELSE StrideOf(shape, b, k - 1) * (IF b[k - 1] THEN shape[k - 1] ELSE 1)

AllTrue(n) == [k \in 1..n |-> TRUE]

\* detail::index_mapper: m.second for a given m.first; the index of first on
\* axis k is (first / stride1_k) mod shape_k, and only the axes with b[k]
\* contribute to second, with the strides of the retained shape
RECURSIVE MapperSecond(_, _, _, _)
MapperSecond(shape, b, first, k) ==
  IF k > Len(shape) THEN 0
  ELSE (IF b[k]
        THEN ((first \div StrideOf(shape, AllTrue(Len(shape)), k)) % shape[k])
             * StrideOf(shape, b, k)
        ELSE 0)
       + MapperSecond(shape, b, first, k + 1)

\* the loop of reduce_to with the cell assigned instead of added
RECURSIVE ReduceLoop_assign(_, _, _, _, _)
ReduceLoop_assign(storage, shape, b, first, acc) ==
  IF first >= Len(storage) THEN acc
  ELSE LET second == MapperSecond(shape, b, first, 1)
       IN  ReduceLoop_assign(storage, shape, b, first + 1,
                             [acc EXCEPT ![second + 1] = storage[first + 1]])

\* do { hr.storage_.add(m.second, storage_[m.first]); } while (m.next());
RECURSIVE ReduceLoop(_, _, _, _, _)
ReduceLoop(storage, shape, b, first, acc) ==
  IF first >= Len(storage) THEN acc
  ELSE LET second == MapperSecond(shape, b, first, 1)
       IN  ReduceLoop(storage, shape, b, first + 1,
                      [acc EXCEPT ![second + 1] = @ + storage[first + 1]])

\* b[*it] = true for every selected axis
bool_mask(rank, sel) == [k \in 1..rank |-> \E i \in 1..Len(sel) : sel[i] = k]

make_sub_axes(axes, sel) == [i \in 1..Len(sel) |-> axes[sel[i]]]

reduce_to(axes, storage, sel) ==
  LET sub_axes == make_sub_axes(axes, sel)
      b        == bool_mask(Len(axes), sel)
  IN  [axes    |-> sub_axes,
       storage |-> ReduceLoop(storage, Shape(axes), b, 0, Zeros(bincount(sub_axes)))]

\* the strictly ascending sequences over 1..rank
RECURSIVE SortedSeq(_)
SortedSeq(S) ==
  IF S = {} THEN <<>>
  ELSE LET m == CHOOSE x \in S : \A y \in S : x <= y
       IN  <<m>> \o SortedSeq(S \ {m})

Ascending(rank) == {SortedSeq(S) : S \in SUBSET (1..rank)}

(***************************************************************************)
(* The histograms of the model.                                            *)
(***************************************************************************)
AxUO   == Axis(0, 2, TRUE, TRUE, FALSE)    \* integer(0,2), underflow and overflow
AxNone == Axis(0, 2, FALSE, FALSE, FALSE)  \* integer(0,2), no flow bins
AxO    == Axis(0, 1, FALSE, TRUE, FALSE)   \* integer(0,1), overflow only
AxGrow == Axis(0, 1, FALSE, FALSE, TRUE)   \* growable integer axis [0,1)

InitAxes ==
  { <<AxGrow>>, <<AxUO>>,
    <<AxUO, AxNone>>, <<AxNone, AxO>>,
    <<AxGrow, AxNone>>, <<AxNone, AxGrow>>, <<AxGrow, AxGrow>>,
    <<AxNone, AxUO, AxO>> }

MaxRank == Len(CHOOSE a \in InitAxes : \A b \in InitAxes : Len(b) <= Len(a))

NoHist == [axes |-> <<>>, storage |-> <<>>]

\* a call record: operation, arguments, error raised ("none" if none), the
\* value returned by at, the shifts reported by the axes during a fill and the
\* histogram returned by reduce_to or passed to +=
Call(op, args, err, ret, shifts, hist) ==
  [op |-> op, args |-> args, err |-> err, ret |-> ret, shifts |-> shifts, hist |-> hist]

NoCall == Call("none", <<>>, "none", 0, <<>>, NoHist)

\* histogram(const axes_type& a, storage_type s = {}):
\*   storage_.reset(detail::bincount(axes_))
HInit ==
  /\ axes_ \in InitAxes
  /\ storage_ = Zeros(bincount(axes_))
  /\ last = NoCall
  /\ nops = 0

(***************************************************************************)
(* Operations of the histogram.                                            *)
(***************************************************************************)
\* histogram::operator()(ts...) -> detail::fill: an unweighted fill
fill_impl(args) ==
  /\ ~(Len(axes_) = 1 /\ Len(args) > 1)   \* tuple forwarding to one axis: not modelled
  /\ nops' = nops + 1
  /\ IF Len(axes_) # Len(args)
     THEN /\ last' = Call("fill", args, "invalid_argument", 0, <<>>, NoHist)
          /\ UNCHANGED <<axes_, storage_>>
     ELSE \E r \in {args_to_index(axes_, args)} :
          \E s \in {IF has_growing_axis(axes_)
                    THEN maybe_replace_storage(storage_, r.axes, r.shifts)
                    ELSE [st |-> storage_, oob |-> FALSE, offs |-> <<>>]} :
            /\ axes_' = r.axes
            /\ storage_' = IF IsValid(r.idx)
                           THEN [s.st EXCEPT ![r.idx.idx + 1] = @ + 1]
                           ELSE s.st
            /\ last' = Call("fill", args,
                             IF s.oob THEN "out_of_bounds_write" ELSE "none",
                             0, r.shifts, NoHist)

\* a fill within the number of operations explored
fill(args) ==
  /\ nops < MaxOps
  /\ fill_impl(args)

RECURSIVE AtLoop(_, _, _, _)
AtLoop(k, axes, args, out) ==
  IF k > Len(axes) THEN out
  ELSE AtLoop(k + 1, axes, args, linearize_index(out, axes[k], args[k]))

\* detail::at: the optional_index of an index tuple of the right arity
at_impl(axes, args) == AtLoop(1, axes, args, optional_index)

\* histogram::at
at(args) ==
  /\ nops < MaxOps
  /\ nops' = nops + 1
  /\ UNCHANGED <<axes_, storage_>>
  /\ IF Len(axes_) # Len(args)
     THEN last' = Call("at", args, "invalid_argument", 0, <<>>, NoHist)
     ELSE LET idx == at_impl(axes_, args)
          IN  IF ~IsValid(idx)
              THEN last' = Call("at", args, "out_of_range", 0, <<>>, NoHist)
              ELSE last' = Call("at", args, "none", storage_[idx.idx + 1], <<>>, NoHist)

\* histogram::reset
reset ==
  /\ nops < MaxOps
  /\ nops' = nops + 1
  /\ storage_' = Zeros(Len(storage_))
  /\ last' = Call("reset", <<>>, "none", 0, <<>>, NoHist)
  /\ UNCHANGED axes_

\* storage_ += rhs.storage_: bin-wise
storage_add(a, b) == [k \in 1..Len(a) |-> a[k] + b[k]]

\* operator+= that adds the common bins before it compares the axes
add_assign_before_check(rhs) ==
  /\ nops < MaxOps
  /\ nops' = nops + 1
  /\ UNCHANGED axes_
  /\ storage_' = [k \in 1..Len(storage_) |->
                    storage_[k] + (IF k <= Len(rhs.storage) THEN rhs.storage[k] ELSE 0)]
  /\ last' = Call("add", <<>>,
                  IF axes_equal(axes_, rhs.axes) THEN "none" ELSE "invalid_argument",
                  0, <<>>, rhs)

\* histogram::operator+=
add_assign(rhs) ==
  /\ nops < MaxOps
  /\ nops' = nops + 1
  /\ UNCHANGED axes_
  /\ IF ~axes_equal(axes_, rhs.axes)
     THEN /\ last' = Call("add", <<>>, "invalid_argument", 0, <<>>, rhs)
          /\ UNCHANGED storage_
     ELSE /\ last' = Call("add", <<>>, "none", 0, <<>>, rhs)
          /\ storage_' = storage_add(storage_, rhs.storage)

\* the right-hand sides of +=: a histogram over the same axes or over any of
\* the initial axes, whose bin at offset o holds o + 1
Rhs == {[axes |-> a, storage |-> [k \in 1..bincount(a) |-> k]] : a \in InitAxes \cup {axes_}}

\* histogram::reduce_to
reduce(sel) ==
  /\ nops < MaxOps
  /\ nops' = nops + 1
  /\ last' = Call("reduce_to", sel, "none", 0, <<>>, reduce_to(axes_, storage_, sel))
  /\ UNCHANGED <<axes_, storage_>>

\* the value tuples tried on a histogram of the given rank: every tuple of
\* the right arity, and the all-zero tuple of every other arity
ArgTuples(rank) == [1..rank -> Values] \cup {Zeros(n) : n \in 1..MaxRank}

\* the index tuples tried on at: on every axis the indices from -MaxDown to one
\* past the extent, and the all-zero tuple of every other arity
IndexTuples(axes) ==
  LET top == CHOOSE n \in {extend(axes[k]) : k \in 1..Len(axes)} :
               \A k \in 1..Len(axes) : extend(axes[k]) <= n
  IN  {t \in [1..Len(axes) -> (0 - MaxDown)..top] :
         \A k \in 1..Len(axes) : t[k] <= extend(axes[k])}
      \cup {Zeros(n) : n \in 1..MaxRank}

HNext ==
  /\ nops < MaxOps
  /\ \/ \E args \in ArgTuples(Len(axes_)) : fill(args)
     \/ \E args \in IndexTuples(axes_) : at(args)
     \/ reset
     \/ \E rhs \in Rhs : add_assign(rhs)
     \/ \E sel \in Ascending(Len(axes_)) : reduce(sel)


(***************************************************************************)
(* Properties of the histogram.                                            *)
(***************************************************************************)
\* product of shape[1 .. k-1]
RECURSIVE ProdBelow(_, _)
ProdBelow(shape, k) == IF k = 1 THEN 1 ELSE shape[k - 1] * ProdBelow(shape, k - 1)

\* the row-major offset of a multi-index, axis 0 varying fastest
RECURSIVE RowMajorFrom(_, _, _)
RowMajorFrom(shape, m, k) ==
  IF k > Len(shape) THEN 0
  ELSE m[k] * ProdBelow(shape, k) + RowMajorFrom(shape, m, k + 1)

RowMajor(shape, m) == RowMajorFrom(shape, m, 1)

RECURSIVE SeqMax(_)
SeqMax(s) == IF s = <<>> THEN 0 ELSE Max(s[1], SeqMax(Tail(s)))

InShape(shape, m) == \A k \in 1..Len(shape) : 0 <= m[k] /\ m[k] < shape[k]

\* all multi-indices inside a shape
AllIdx(shape) == {m \in [1..Len(shape) -> 0..(SeqMax(shape) - 1)] : InShape(shape, m)}

RECURSIVE SetSum(_, _)
SetSum(S, f) ==
  IF S = {} THEN 0
  ELSE LET x == CHOOSE y \in S : TRUE IN f[x] + SetSum(S \ {x}, f)

\* the internal index on every axis of an external index tuple
Internal(axes, t) == [k \in 1..Len(axes) |-> t[k] + Bool2Int(axes[k].uf)]

\* the internal index on every axis that a value tuple is mapped to
InternalOfValues(axes, v) ==
  [k \in 1..Len(axes) |-> update(axes[k], v[k]).j + Bool2Int(axes[k].uf)]

\* the external index tuples around a shape: -1 .. extent on every axis
TuplesAround(shape) ==
  {t \in [1..Len(shape) -> (0 - 1)..SeqMax(shape)] : \A k \in 1..Len(shape) : t[k] <= shape[k]}

\* by how much the lower edge of every axis moved down
LowShift(shifts) == [k \in 1..Len(shifts) |-> Max(0 - shifts[k], 0)]

Grew(call) == call.op = "fill" /\ \E k \in 1..Len(call.shifts) : call.shifts[k] # 0

\* C1: a fill that grows one or more axes rebuilds the storage so that every
\* old cell (idx_0, ..., idx_{r-1}) is written to (idx_k + max(-shift_k, 0))
\* under the row-major strides of the new extents: the offsets written are
\* those, no two old cells are written to the same offset, every previous
\* count is found at its new offset (plus the count of the fill itself where
\* it lands there) and the total grows by the fill alone.
C1_RebuildKeepsEveryCount ==
  [][Grew(last') =>
       LET old == Shape(axes_)
           new == Shape(axes_')
           ls  == LowShift(last'.shifts)
           to(m) == RowMajor(new, [k \in 1..Len(new) |-> m[k] + ls[k]])
           rb  == maybe_replace_storage(storage_, axes_', last'.shifts)
       IN  /\ \A m \in AllIdx(old) :
                /\ rb.offs[RowMajor(old, m) + 1] = to(m)
                /\ storage_'[to(m) + 1] - storage_[RowMajor(old, m) + 1] \in {0, 1}
           /\ \A c, d \in 1..Len(storage_) : c # d => rb.offs[c] # rb.offs[d]
           /\ SeqSum(storage_') - SeqSum(storage_) \in {0, 1}
    ]_hvars

\* C2: after construction and after any sequence of fills (growth included)
\* and resets, the storage size is the product of the current extents.
C2_SizeIsProductOfExtents ==
  Len(storage_) = ProdBelow(Shape(axes_), Len(axes_) + 1)

C2_Witness ==
  /\ Grew(last) /\ Len(axes_) >= 2 /\ nops >= 2
  /\ \A k \in 1..Len(axes_) : last.shifts[k] # 0

\* the offsets of a histogram with the given axes and storage size are
\* row-major: for at, for every index tuple inside the shape, and for fill, for
\* every value tuple mapped inside the shape
RowMajorOffsets(axes, size) ==
  \A shape \in {Shape(axes)} :
  \A good \in {{t \in TuplesAround(shape) : InShape(shape, Internal(axes, t))}} :
    /\ \A t \in good :
         \A o \in {at_impl(axes, t)} :
           /\ IsValid(o)
           /\ o.idx = RowMajor(shape, Internal(axes, t))
           /\ 0 <= o.idx /\ o.idx < size
    /\ Cardinality({at_impl(axes, t).idx : t \in good}) = Cardinality(good)
    /\ \A v \in [1..Len(axes) -> Values] :
         \A r \in {args_to_index(axes, v)} :
         \A J \in {InternalOfValues(axes, v)} :
           InShape(Shape(r.axes), J) =>
             /\ IsValid(r.idx)
             /\ r.idx.idx = RowMajor(Shape(r.axes), J)
             /\ 0 <= r.idx.idx /\ r.idx.idx < bincount(r.axes)

\* C3: for every tuple whose internal index lies in [0, extent) on every axis,
\* the linearizer used by at and the one used by fill return a valid offset
\* equal to sum_k j_k * prod_{m<k} extent_m; distinct multi-indices give
\* distinct offsets, all inside [0, size).  The offsets depend on the axes and
\* the storage size alone: they are checked for the histogram as constructed
\* and after every step that changes the axes or the storage size.
C3_RowMajorOffsets ==
  /\ RowMajorOffsets(axes_, Len(storage_))
  /\ [][(axes_' # axes_ \/ Len(storage_') # Len(storage_))
          => RowMajorOffsets(axes_', Len(storage_'))]_hvars

C3_Witness ==
  /\ last.op = "at" /\ last.err = "none" /\ last.ret = 1
  /\ Len(axes_) = 3
  /\ \A k \in 1..Len(axes_) : Internal(axes_, last.args)[k] > 0

\* C5: reduce_to over a strictly ascending subset of the axes returns a
\* histogram whose axes are those of the subset and whose every bin is the sum
\* of the cells of the original that agree with it on the retained axes; the
\* totals agree and the original histogram is not modified.
C5_ReduceSumsMatchingCells ==
  [][last'.op = "reduce_to" =>
       LET sel   == last'.args
           res   == last'.hist
           shape == Shape(axes_)
           sub   == Shape(res.axes)
           cell  == [m \in AllIdx(shape) |-> storage_[RowMajor(shape, m) + 1]]
       IN  /\ res.axes = [i \in 1..Len(sel) |-> axes_[sel[i]]]
           /\ Len(res.storage) = ProdBelow(sub, Len(sub) + 1)
           /\ \A p \in AllIdx(sub) :
                res.storage[RowMajor(sub, p) + 1] =
                  SetSum({m \in AllIdx(shape) : \A i \in 1..Len(sel) : m[sel[i]] = p[i]}, cell)
           /\ SeqSum(res.storage) = SeqSum(storage_)
           /\ axes_' = axes_ /\ storage_' = storage_
    ]_hvars

C5_Witness ==
  /\ last.op = "reduce_to" /\ Len(axes_) = 3 /\ Len(last.args) = 2
  /\ SeqSum(storage_) > 1
  /\ \E o \in 1..Len(last.hist.storage) :
       last.hist.storage[o] > 0 /\ last.hist.storage[o] \notin {storage_[c] : c \in 1..Len(storage_)}

\* C6: on a histogram without growable axes, a fill whose coordinate on some
\* axis maps to an internal index outside [0, extent) is dropped: no error is
\* raised and no bin and no axis changes, wherever the offending axis is.
C6_OutOfRangeFillDropped ==
  [][(/\ last'.op = "fill"
      /\ ~has_growing_axis(axes_)
      /\ Len(last'.args) = Len(axes_)
      /\ ~InShape(Shape(axes_), InternalOfValues(axes_, last'.args)))
     => (last'.err = "none" /\ storage_' = storage_ /\ axes_' = axes_)
    ]_hvars

C6_Witness ==
  /\ last.op = "fill" /\ last.err = "none" /\ Len(axes_) = 3
  /\ ~has_growing_axis(axes_)
  /\ LET J == InternalOfValues(axes_, last.args)
     IN  /\ J[1] = extend(axes_[1])
         /\ \A k \in 2..Len(axes_) : 0 <= J[k] /\ J[k] < extend(axes_[k])
  /\ nops = 2 /\ SeqSum(storage_) = 1

\* C7: h1 += h2 with axes that are not element-wise equal fails with an
\* invalid-argument error and leaves h1 unchanged; the bin-wise addition is
\* performed only when the axes are equal.
C7_AddRequiresEqualAxes ==
  [][last'.op = "add" =>
       /\ last'.hist.axes # axes_ =>
            (last'.err = "invalid_argument" /\ axes_' = axes_ /\ storage_' = storage_)
       /\ last'.hist.axes = axes_ =>
            /\ last'.err = "none" /\ axes_' = axes_
            /\ \A k \in 1..Len(storage_) : storage_'[k] = storage_[k] + last'.hist.storage[k]
    ]_hvars

C7_Witness ==
  /\ last.op = "add" /\ last.err = "invalid_argument"
  /\ SeqSum(storage_) > 0
  /\ Len(last.hist.axes) = Len(axes_)

\* C8 as stated: every index tuple of the right arity with an index outside
\* {0, ..., extent_k - 1} makes at fail with an out-of-range error.
C8_AtRejectsIndexOutsideExtent ==
  (/\ last.op = "at"
   /\ Len(last.args) = Len(axes_)
   /\ \E k \in 1..Len(axes_) : last.args[k] < 0 \/ last.args[k] >= extend(axes_[k]))
  => last.err = "out_of_range"

\* C8 as amended: at is a pure read, and every index tuple of the right arity
\* with an internal index (the index plus 1 when the axis has an underflow
\* bin) outside {0, ..., extent_k - 1} makes at fail with an out-of-range error.
C8_AtRejectsInternalIndexOutsideExtent ==
  [][last'.op = "at" =>
       /\ axes_' = axes_ /\ storage_' = storage_
       /\ (/\ Len(last'.args) = Len(axes_)
           /\ ~InShape(Shape(axes_), Internal(axes_, last'.args)))
          => last'.err = "out_of_range"
    ]_hvars

C8_Witness ==
  /\ last.op = "at" /\ last.err = "out_of_range" /\ Len(axes_) = 3
  /\ Internal(axes_, last.args)[3] = extend(axes_[3])
  /\ InShape(<<extend(axes_[1]), extend(axes_[2]), extend(axes_[3]) + 1>>, Internal(axes_, last.args))
  /\ SeqSum(storage_) > 0

\* the rebuild never writes outside the new storage
RebuildInBounds == last.err # "out_of_bounds_write"

(***************************************************************************)
(* The adaptive count storage nstore.  The buffer is modelled as the bytes *)
(* it holds, least significant byte first, so that a reinterpretation of   *)
(* the buffer under another cell width reads what the code reads.          *)
(***************************************************************************)
\* sizeof(wtype): two doubles, w and w2
SizeofWtype == 16

\* ---- unsigned integers as little-endian byte sequences ----
\* std::numeric_limits<T>::max() for the unsigned type of this many bytes
IsMaxCount(cell) == \A k \in 1..Len(cell) : cell[k] = 255

IsZeroCell(cell) == \A k \in 1..Len(cell) : cell[k] = 0

\* ++b on an unsigned cell (wraps at the maximum)
RECURSIVE IncBytes(_)
IncBytes(cell) ==
  IF cell = <<>> THEN <<>>
  ELSE IF cell[1] < 255 THEN <<cell[1] + 1>> \o Tail(cell)
       ELSE <<0>> \o IncBytes(Tail(cell))

\* the unsigned value n (n < 2^31) in a cell of the given width
RECURSIVE NatToBytes(_, _)
NatToBytes(n, width) ==
  IF width = 0 THEN <<>> ELSE <<n % 256>> \o NatToBytes(n \div 256, width - 1)

\* ((T*)buffer_)[i] for a type T of the given width, i counted from 0
CellAt(buffer, width, i) == SubSeq(buffer, i * width + 1, (i + 1) * width)

\* the buffer with ((T*)buffer_)[i] replaced
PutCell(buffer, width, i, cell) ==
  LET n  == Len(buffer)
      lo == Min(i * width, n)
      hi == Min((i + 1) * width, n)
  IN  SubSeq(buffer, 1, lo) \o SubSeq(cell, 1, hi - lo) \o SubSeq(buffer, hi + 1, n)

\* ---- IEEE 754 binary64 on byte sequences: non-negative values ----
\* bits of a byte sequence, least significant first
BitsOf(bytes) == [k \in 1..(8 * Len(bytes)) |-> (bytes[((k - 1) \div 8) + 1] \div (2 ^ ((k - 1) % 8))) % 2]

\* bit k of a bit sequence, zero past its end
BitIn(bits, k) == IF k <= Len(bits) THEN bits[k] ELSE 0

\* the number held by bits 8 * j + 1 .. 8 * j + 8
OctetOf(bits, j) ==
  BitIn(bits, 8 * j + 1) + 2 * BitIn(bits, 8 * j + 2) + 4 * BitIn(bits, 8 * j + 3)
  + 8 * BitIn(bits, 8 * j + 4) + 16 * BitIn(bits, 8 * j + 5) + 32 * BitIn(bits, 8 * j + 6)
  + 64 * BitIn(bits, 8 * j + 7) + 128 * BitIn(bits, 8 * j + 8)

\* the number held by a sequence of at most 24 bits
BitsToNat(bits) == OctetOf(bits, 0) + 256 * OctetOf(bits, 1) + 65536 * OctetOf(bits, 2)

BytesOf(bits) == [k \in 1..(Len(bits) \div 8) |-> BitsToNat(SubSeq(bits, 8 * k - 7, 8 * k))]

\* index of the most significant set bit, 0 if there is none
Msb(bits) ==
  LET ones == {k \in 1..Len(bits) : bits[k] = 1}
  IN  IF ones = {} THEN 0 ELSE CHOOSE k \in ones : \A j \in ones : j <= k

\* the number held by bits w * j + 1 .. w * j + w of a bit sequence
LimbOf(bits, w, j) ==
  BitsToNat([k \in 1..w |-> IF w * j + k <= Len(bits) THEN bits[w * j + k] ELSE 0])

\* the limbs j .. n - 1 of a + b with carry c, and the carry out; t is the sum
\* of limb j
RECURSIVE AddLimbs(_, _, _, _, _, _)
LimbsFrom(a, b, w, j, n, t) == <<t % (2 ^ w)>> \o AddLimbs(a, b, w, j + 1, n, t \div (2 ^ w))

AddLimbs(a, b, w, j, n, c) ==
  IF j = n THEN <<c>> ELSE LimbsFrom(a, b, w, j, n, LimbOf(a, w, j) + LimbOf(b, w, j) + c)

\* bit k of a number given in limbs of w bits
LimbBit(s, w, k) == (s[((k - 1) \div w) + 1] \div (2 ^ ((k - 1) % w))) % 2

\* the bits of a sum of two m-bit numbers given in limbs
BitsOfLimbs(s, w, m) == [k \in 1..(m + LimbBit(s, w, m + 1)) |-> LimbBit(s, w, k)]

\* a + b on bit sequences, added in limbs of w bits
AddBitsBy(a, b, w, m) == BitsOfLimbs(AddLimbs(a, b, w, 0, (m + w - 1) \div w, 0), w, m)

AddBits(a, b) == AddBitsBy(a, b, 24, Max(Len(a), Len(b)))

\* the biased exponent field of a double
ExpField(d) == (d[8] % 128) * 16 + (d[7] \div 16)

\* the 53-bit significand of a double, the implicit bit included
Significand(d) ==
  LET bits == BitsOf(d)
  IN  [k \in 1..53 |-> IF k <= 52 THEN bits[k] ELSE (IF ExpField(d) > 0 THEN 1 ELSE 0)]

\* the power of two that weighs bit 1 of the significand, plus 1075
LsbWeight(d) == IF ExpField(d) > 0 THEN ExpField(d) ELSE 1

\* bits low .. low + 52 of a bit sequence, zero outside it
KeptBits(bits, low) ==
  [k \in 1..53 |-> IF low + k - 1 >= 1 /\ low + k - 1 <= Len(bits)
                   THEN bits[low + k - 1] ELSE 0]

\* round to nearest, ties to even: the bits below bit low are above a half,
\* or are a half and bit low is odd
RoundsUp(bits, low) ==
  LET BitAt(k) == IF k >= 1 /\ k <= Len(bits) THEN bits[k] ELSE 0
  IN  /\ BitAt(low - 1) = 1
      /\ \/ \E k \in 1..Len(bits) : k < low - 1 /\ bits[k] = 1
         \/ BitAt(low) = 1

\* the significand rounded at bit low: 53 bits, or 54 when it carried to 2^53
RoundBits(bits, low) ==
  IF RoundsUp(bits, low) THEN AddBits(KeptBits(bits, low), <<1>>)
  ELSE KeptBits(bits, low)

\* the double of a 53-bit significand and, if it is normal, exponent field w
EncodeSig(sig, w) ==
  BytesOf([k \in 1..64 |->
             IF k <= 52 THEN sig[k]
             ELSE IF k <= 63 THEN ((IF sig[53] = 1 THEN w ELSE 0) \div (2 ^ (k - 53))) % 2
             ELSE 0])

EncodeDouble(r, w) ==
  IF Len(r) > 53 THEN EncodeSig(SubSeq(r, 2, 54), w + 1) ELSE EncodeSig(r, w)

\* p is the leading bit of bits; a subnormal keeps the bits from 2 - q
PackFrom(bits, q, p) ==
  IF p = 0 THEN Zeros(8)
  ELSE EncodeDouble(RoundBits(bits, Max(p - 52, 2 - q)), q + Max(p - 52, 2 - q) - 1)

\* the double nearest to sum_k bits[k] * 2^(q - 1075 + k - 1), ties to even
PackDouble(bits, q) == PackFrom(bits, q, Msb(bits))

\* x + y for doubles whose last significand bits weigh qx and qy; an addend
\* below half a unit in the last place of the other is absorbed
AddAligned(x, y, qx, qy) ==
  IF qx - qy > 60 THEN x
  ELSE IF qy - qx > 60 THEN y
  ELSE PackDouble(AddBits(Zeros(qx - Min(qx, qy)) \o Significand(x),
                          Zeros(qy - Min(qx, qy)) \o Significand(y)), Min(qx, qy))

\* x + y for non-negative doubles, rounded to nearest, ties to even
DoubleAdd(x, y) == AddAligned(x, y, LsbWeight(x), LsbWeight(y))

\* (double) of an unsigned integer cell
CountToDouble(cell) == PackDouble(BitsOf(cell), 1075)

(***************************************************************************)
(* nstore: state.                                                          *)
(***************************************************************************)
VARIABLES
  size_,     \* nstore::size_
  depth_,    \* nstore::depth_: 0 (no buffer yet), 1, 2, 4, 8 or sizeof(wtype)
  buffer_,   \* the bytes at nstore::buffer_, <<>> while buffer_ is null
  corrupt,   \* TRUE once a write went outside the buffer
  slast,     \* the last call on the storage and its outcome
  ncalls,    \* per bin, the number of increase(i) calls since construction
  fresh,     \* TRUE if the storage was constructed empty at 1-byte depth
  stream,    \* the archive written by the last save
  other,     \* the storage the archive was loaded into
  snops      \* the number of calls made on the storage

svars == <<size_, depth_, buffer_, corrupt, slast, ncalls, fresh, stream, other, snops>>

vars == <<axes_, storage_, last, nops, size_, depth_, buffer_, corrupt, slast,
          ncalls, fresh, stream, other, snops>>

(***************************************************************************)
(* Bounds of the storage model.                                            *)
(***************************************************************************)
MaxBins  == 3     \* bins of a storage: 1 .. MaxBins
MaxCalls == 2     \* calls on a storage per run
MaxIncr  == 300   \* increase(0) calls followed on a fresh storage
MaxCold  == 2     \* increase(i) calls followed on every other bin

\* a storage as a value
Store(size, depth, buffer) == [size |-> size, depth |-> depth, buffer |-> buffer]

This == Store(size_, depth_, buffer_)

ValidDepth(d) == d \in {0, 1, 2, 4, 8, SizeofWtype}

\* ---- wtype ----
DoubleOne == <<0, 0, 0, 0, 0, 0, 240, 63>>

\* a weight v with the doubles v and v * v
Weight(v, vv) == [w |-> v, ww |-> vv]

WeightOne == Weight(DoubleOne, DoubleOne)

\* wtype::operator+=(double v): w += v, w2 += v * v
WtypeAdd(cell, v) ==
  DoubleAdd(SubSeq(cell, 1, 8), v.w) \o DoubleAdd(SubSeq(cell, 9, 16), v.ww)

\* wtype(uint64_t c): (c, c)
WtypeOf(d) == d \o d

WtypeOfCount(cell) == WtypeOf(CountToDouble(cell))

\* the cells of a buffer of the given cell width, in order
CellsOf(buffer, width, size) == [k \in 1..size |-> CellAt(buffer, width, k - 1)]

RECURSIVE FlattenFrom(_, _)
FlattenFrom(cells, k) ==
  IF k > Len(cells) THEN <<>> ELSE cells[k] \o FlattenFrom(cells, k + 1)

Flatten(cells) == FlattenFrom(cells, 1)

\* nstore::create: a zero-filled buffer of size_ * depth_ bytes
create(st) == [st EXCEPT !.buffer = Zeros(st.size * st.depth)]

\* nstore::grow: promotion to the next width, twice as wide; an integer cell
\* is zero-extended, and the step from 8 bytes is the transition to wtype
RECURSIVE ZeroExtendFrom(_, _, _, _)
ZeroExtendFrom(buffer, width, size, k) ==
  IF k = size THEN <<>>
  ELSE CellAt(buffer, width, k) \o Zeros(width) \o ZeroExtendFrom(buffer, width, size, k + 1)

RECURSIVE ToWtypeFrom(_, _, _, _)
ToWtypeFrom(buffer, width, size, k) ==
  IF k = size THEN <<>>
  ELSE WtypeOfCount(CellAt(buffer, width, k)) \o ToWtypeFrom(buffer, width, size, k + 1)

grow(st) ==
  [st EXCEPT !.depth = 2 * st.depth,
             !.buffer = IF 2 * st.depth = SizeofWtype
                        THEN ToWtypeFrom(st.buffer, st.depth, st.size, 0)
                        ELSE ZeroExtendFrom(st.buffer, st.depth, st.size, 0)]

\* nstore::wconvert: every count c becomes the wtype (c, c)
wconvert(st) ==
  [st EXCEPT !.depth = SizeofWtype,
             !.buffer = IF st.depth = 0 THEN Zeros(st.size * SizeofWtype)
                        ELSE ToWtypeFrom(st.buffer, st.depth, st.size, 0)]

\* nstore::value: the count or sum of weights of bin i, as a double
value(st, i) ==
  IF st.depth = 0 THEN Zeros(8)
  ELSE IF st.depth = SizeofWtype THEN SubSeq(CellAt(st.buffer, SizeofWtype, i), 1, 8)
  ELSE CountToDouble(CellAt(st.buffer, st.depth, i))

\* nstore::variance: the count or sum of squared weights of bin i, as a double
variance(st, i) ==
  IF st.depth = 0 THEN Zeros(8)
  ELSE IF st.depth = SizeofWtype THEN SubSeq(CellAt(st.buffer, SizeofWtype, i), 9, 16)
  ELSE CountToDouble(CellAt(st.buffer, st.depth, i))

\* nstore::operator==: same size, and the same value and variance in every bin
StoreEqual(a, b) ==
  /\ a.size = b.size
  /\ \A i \in 0..(a.size - 1) :
       value(a, i) = value(b, i) /\ variance(a, i) = variance(b, i)

(***************************************************************************)
(* nstore::increase(size_type i).  The switch is run from the label of     *)
(* depth_; a case that does not break falls into the case written after    *)
(* it: 0, sizeof(wtype), 1, 2, 4, 8, default.  A run state r carries the   *)
(* storage, whether a write left the buffer, and how the call ended.       *)
(***************************************************************************)
CaseOrder == <<0, SizeofWtype, 1, 2, 4, 8>>

\* position in the switch of the label jumped to; past the cases is default
LabelOf(d) ==
  IF \E k \in 1..Len(CaseOrder) : CaseOrder[k] = d
  THEN CHOOSE k \in 1..Len(CaseOrder) : CaseOrder[k] = d
  ELSE Len(CaseOrder) + 1

\* the wtype read at ((wtype*)buffer_)[i]: bytes outside the buffer read as 0
WtypeAt(buffer, i) ==
  [k \in 1..SizeofWtype |->
     IF i * SizeofWtype + k <= Len(buffer) THEN buffer[i * SizeofWtype + k] ELSE 0]

\* case 0: depth_ = 1; create();
ZeroCase(r) == [r EXCEPT !.st = create([r.st EXCEPT !.depth = 1])]

\* case sizeof(wtype): { wtype& b = ((wtype*)buffer_)[i]; b += 1.0; }
\* With a buffer shorter than (i + 1) wtypes the access is out of bounds: it
\* faults, or the bytes written outside the buffer are lost.
WtypeCase(r, i, mode) ==
  IF (i + 1) * SizeofWtype > Len(r.st.buffer) /\ mode = "stop"
  THEN [r EXCEPT !.oob = TRUE, !.end = "crash"]
  ELSE [r EXCEPT !.st.buffer = PutCell(r.st.buffer, SizeofWtype, i,
                                       WtypeAdd(WtypeAt(r.st.buffer, i), WeightOne)),
                 !.oob = r.oob \/ (i + 1) * SizeofWtype > Len(r.st.buffer)]

\* BOOST_HISTOGRAM_NSTORE_INC(T) without the promotion: the cell at the
\* maximum wraps to zero
IncCase_wrap(r, T, i) ==
  [r EXCEPT !.st.buffer = PutCell(r.st.buffer, T, i, IncBytes(CellAt(r.st.buffer, T, i))),
            !.end = "break"]

\* BOOST_HISTOGRAM_NSTORE_INC(T): grow and fall to the next case at the
\* maximum, else increment and break
IncCase(r, T, i) ==
  LET b == CellAt(r.st.buffer, T, i)
  IN  IF IsMaxCount(b)
      THEN [r EXCEPT !.st = grow(r.st)]
      ELSE [r EXCEPT !.st.buffer = PutCell(r.st.buffer, T, i, IncBytes(b)),
                     !.end = "break"]

\* the body of the case with the given label
CaseBody(r, label, i, mode) ==
  IF label = 0 THEN ZeroCase(r)
  ELSE IF label = SizeofWtype THEN WtypeCase(r, i, mode)
  ELSE IncCase(r, label, i)

RECURSIVE RunCases(_, _, _, _)
RunCases(r, k, i, mode) ==
  IF r.end # "run" THEN r
  ELSE IF k > Len(CaseOrder)
       THEN [r EXCEPT !.end = IF mode = "stop" THEN "abort" ELSE "assert_skipped"]   \* default:
  ELSE RunCases(CaseBody(r, CaseOrder[k], i, mode), k + 1, i, mode)

increase_run(st, i, mode) ==
  RunCases([st |-> st, oob |-> FALSE, end |-> "run"], LabelOf(st.depth), i, mode)

\* ((wtype*)buffer_)[i] += w
AddWeight(st, i, v) ==
  [st EXCEPT !.buffer = PutCell(st.buffer, SizeofWtype, i,
                                WtypeAdd(CellAt(st.buffer, SizeofWtype, i), v))]

\* nstore::increase(size_type i, double w)
increase_w_run(st, i, v) ==
  AddWeight(IF st.depth # SizeofWtype THEN wconvert(st) ELSE st, i, v)

(***************************************************************************)
(* Serialization.                                                          *)
(***************************************************************************)
\* zero suppression: a run of n zero cells is written as a zero cell followed
\* by a cell holding n; every other cell is written as it is
RECURSIVE ZeroRun(_, _)
ZeroRun(cells, k) ==
  IF k <= Len(cells) /\ IsZeroCell(cells[k]) THEN 1 + ZeroRun(cells, k + 1) ELSE 0

RECURSIVE EncodeFrom(_, _, _)
EncodeFrom(cells, width, k) ==
  IF k > Len(cells) THEN <<>>
  ELSE IF IsZeroCell(cells[k])
       THEN LET n == ZeroRun(cells, k)
            IN  <<cells[k], NatToBytes(n, width)>> \o EncodeFrom(cells, width, k + n)
       ELSE <<cells[k]>> \o EncodeFrom(cells, width, k + 1)

\* zero_suppression_encode: fails unless the encoding is smaller than the
\* array
zero_suppression_encode(cells, width) ==
  LET buf == EncodeFrom(cells, width, 1)
  IN  [ok |-> Len(buf) < Len(cells), buf |-> buf]

RECURSIVE zero_suppression_decode(_, _)
zero_suppression_decode(buf, width) ==
  IF buf = <<>> THEN <<>>
  ELSE IF IsZeroCell(buf[1])
       THEN LET n == BitsToNat(BitsOf(buf[2]))
            IN  [k \in 1..n |-> Zeros(width)] \o zero_suppression_decode(SubSeq(buf, 3, Len(buf)), width)
       ELSE <<buf[1]>> \o zero_suppression_decode(Tail(buf), width)

SerialDepths == {1, 2, 4, 8, SizeofWtype}

\* BOOST_HISTOGRAM_NSTORE_SAVE(T): the flag and the body written
SaveCase(cells, enc) ==
  IF enc.ok THEN <<TRUE, enc.buf>> ELSE <<FALSE, cells>>

\* the switch of the saving branch, on the cells of the buffer
SaveSwitch(st, cells) ==
  IF st.depth \in SerialDepths
  THEN [data |-> <<st.size, st.depth>> \o SaveCase(cells, zero_suppression_encode(cells, st.depth)),
        err |-> "none"]
  ELSE [data |-> <<st.size, st.depth>>, err |-> "assert_invalid_depth"]

\* nstore::serialize with a saving archive: the items written and the outcome
save_run(st) ==
  IF st.buffer = <<>> /\ st.size > 0
  THEN [data |-> <<st.size, st.depth>>, err |-> "bad_alloc"]
  ELSE SaveSwitch(st, CellsOf(st.buffer, st.depth, st.size))

\* std::realloc: the old bytes are kept up to the new length; the new bytes
\* are indeterminate and are all written by the load that follows
Realloc(buffer, n) == [k \in 1..n |-> IF k <= Len(buffer) THEN buffer[k] ELSE 0]

\* the loading branch on the storage t, whose size_ and depth_ have been read
LoadSwitch(t, data) ==
  IF t.buffer = <<>> /\ t.size > 0
  THEN [st |-> t, err |-> "bad_alloc"]
  ELSE IF t.depth \in SerialDepths
       THEN [st |-> [t EXCEPT !.buffer =
                       IF data[3] THEN Flatten(zero_suppression_decode(data[4], t.depth))
                       ELSE Flatten(data[4])],
             err |-> "none"]
       ELSE [st |-> t, err |-> "assert_invalid_depth"]

\* nstore::serialize with a loading archive, on the storage st
load_run(st, data) ==
  LoadSwitch([st EXCEPT !.size = data[1], !.depth = data[2],
                        !.buffer = IF st.size # data[1] \/ st.depth # data[2]
                                   THEN Realloc(st.buffer, data[1] * data[2])
                                   ELSE st.buffer],
             data)

(***************************************************************************)
(* The storage as a state machine.                                         *)
(***************************************************************************)
NoStore == Store(0, 0, <<>>)

SCall(op, i, w, err) == [op |-> op, i |-> i, w |-> w, err |-> err]

NoSCall == SCall("none", 0, <<>>, "none")

NoStream == [data |-> <<>>, src |-> NoStore]

\* the process is gone after a fault or a failed assertion
Running == slast.err \notin {"crash", "abort"} /\ ValidDepth(depth_)

\* the cells a constructed storage is given in the initial states
MaxCell(width) == [k \in 1..width |-> 255]

NearMaxCell(width) == [k \in 1..width |-> IF k = 1 THEN 254 ELSE 255]

SInitWith(sizes, samples) ==
  /\ size_ \in sizes
  /\ depth_ \in DOMAIN samples
  /\ \E cells \in [1..size_ -> samples[depth_]] :
       buffer_ = Flatten(cells)
  /\ corrupt = FALSE
  /\ slast = NoSCall
  /\ ncalls = [k \in 1..size_ |-> 0]
  /\ fresh = (depth_ = 1 /\ \A k \in 1..Len(buffer_) : buffer_[k] = 0)
  /\ stream = NoStream
  /\ other = NoStore
  /\ snops = 0

HIdle == axes_ = <<>> /\ storage_ = <<>> /\ last = NoCall /\ nops = 0

SIdle ==
  /\ size_ = 0 /\ depth_ = 0 /\ buffer_ = <<>> /\ corrupt = FALSE
  /\ slast = NoSCall /\ ncalls = <<>> /\ fresh = FALSE
  /\ stream = NoStream /\ other = NoStore /\ snops = 0

WeightSample == Weight(<<0, 0, 0, 0, 0, 0, 224, 63>>, <<0, 0, 0, 0, 0, 0, 208, 63>>)

\* nstore(size, depth) and storages that have been filled before
StoreSamples ==
  [d \in {0, 1, 2, 4, 8, SizeofWtype} |->
     IF d = 0 THEN {<<>>}
     ELSE IF d = SizeofWtype THEN {Zeros(d), WeightSample.w \o WeightSample.ww}
     ELSE {Zeros(d), MaxCell(d)}]

SInit == HIdle /\ SInitWith(1..MaxBins, StoreSamples)

CountSamples == [d \in {1, 2, 4} |-> {Zeros(d), NearMaxCell(d), MaxCell(d)}]

CInit == HIdle /\ SInitWith(1..MaxBins, CountSamples)

\* increase(i)
increase(i, mode) ==
  /\ Running
  /\ i \in 0..(size_ - 1)
  /\ \E r \in {increase_run(This, i, mode)} :
       /\ size_' = r.st.size
       /\ depth_' = r.st.depth
       /\ buffer_' = r.st.buffer
       /\ corrupt' = (corrupt \/ r.oob)
       /\ slast' = SCall("increase", i, <<>>, IF r.end = "break" THEN "none" ELSE r.end)
  /\ ncalls' = [ncalls EXCEPT ![i + 1] = @ + 1]
  /\ UNCHANGED <<fresh, stream, other>>

\* increase(i, w)
increase_w(i, v) ==
  /\ Running
  /\ i \in 0..(size_ - 1)
  /\ \E s \in {increase_w_run(This, i, v)} :
       /\ size_' = s.size
       /\ depth_' = s.depth
       /\ buffer_' = s.buffer
  /\ slast' = SCall("increase_w", i, v.w, "none")
  /\ UNCHANGED <<corrupt, ncalls, fresh, stream, other>>

\* oa << storage
save ==
  /\ Running
  /\ \E s \in {save_run(This)} :
       /\ stream' = [data |-> s.data, src |-> This]
       /\ slast' = SCall("save", 0, <<>>, s.err)
  /\ UNCHANGED <<size_, depth_, buffer_, corrupt, ncalls, fresh, other>>

\* ia >> target, for a complete archive
load(target) ==
  /\ Running
  /\ Len(stream.data) = 4
  /\ \E l \in {load_run(target, stream.data)} :
       /\ other' = l.st
       /\ slast' = SCall("load", 0, <<>>, l.err)
  /\ UNCHANGED <<size_, depth_, buffer_, corrupt, ncalls, fresh, stream>>

Weights ==
  { Weight(<<0, 0, 0, 0, 0, 0, 224, 63>>, <<0, 0, 0, 0, 0, 0, 208, 63>>),
    Weight(<<0, 0, 0, 0, 0, 224, 47, 61>>, <<0, 0, 0, 0, 32, 192, 111, 58>>) }

\* the storages loaded into: a lazy one, and one whose bins are all 255
Targets == {Store(1, 0, <<>>), Store(MaxBins, 1, MaxCell(MaxBins))}

Modes == {"continue", "stop"}

Counted(A) == snops < MaxCalls /\ A /\ snops' = snops + 1

SNext ==
  /\ UNCHANGED hvars
  /\ \/ \E i \in 0..(MaxBins - 1), mode \in Modes : Counted(increase(i, mode))
     \/ \E i \in 0..(MaxBins - 1), v \in Weights : Counted(increase_w(i, v))
     \/ Counted(save)
     \/ \E target \in Targets : Counted(load(target))

\* the increase(i) calls followed when counting: any bin up to MaxCold
\* times, and bin 0 of a fresh storage up to MaxIncr times
CNext ==
  /\ UNCHANGED <<hvars, snops>>
  /\ \E i \in 0..(MaxBins - 1) :
       /\ i < size_
       /\ ncalls[i + 1] < MaxCold \/ (fresh /\ i = 0 /\ ncalls[1] < MaxIncr)
       /\ increase(i, "stop")

Init == HInit /\ SIdle

Next == HNext /\ UNCHANGED svars

Spec == Init /\ [][Next]_vars

SpecStore == SInit /\ [][SNext]_vars

SpecCount == CInit /\ [][CNext]_vars

(***************************************************************************)
(* A rank-1 histogram over one growable integer axis that starts as [0,1), *)
(* filled with values on both sides of the axis.                           *)
(***************************************************************************)
MaxFills == 3
GrowDown == 2
GrowUp   == 5

GrowValues == (0 - GrowDown) .. GrowUp

\* histogram(const axes_type& a, storage_type s = {}) on the growable axis
GInit ==
  /\ axes_ = <<AxGrow>>
  /\ storage_ = Zeros(bincount(axes_))
  /\ last = NoCall
  /\ nops = 0
  /\ SIdle

\* histogram::operator()(v) on the rank-1 histogram
grow_fill(v) ==
  /\ nops < MaxFills
  /\ fill_impl(<<v>>)

GNext ==
  /\ \E v \in GrowValues : grow_fill(v)
  /\ UNCHANGED svars

SpecGrow == GInit /\ [][GNext]_vars

(***************************************************************************)
(* Properties of the storage.                                              *)
(***************************************************************************)
\* c is the count b plus one, in the same width
IsSuccessor(b, c) ==
  /\ Len(b) = Len(c)
  /\ \E k \in 1..Len(b) :
       /\ \A j \in 1..(k - 1) : b[j] = 255 /\ c[j] = 0
       /\ b[k] < 255 /\ c[k] = b[k] + 1
       /\ \A j \in (k + 1)..Len(b) : c[j] = b[j]

\* the effect of one increase(i) on a storage of integer depth 1, 2 or 4
IncreaseStep ==
  LET i == slast'.i
      d == depth_
      b == CellAt(buffer_, d, i)
  IN  depth_ \in {1, 2, 4} =>
        /\ slast'.op = "increase" /\ slast'.err = "none"
        /\ size_' = size_ /\ ~corrupt'
        /\ Len(buffer_') = size_ * depth_'
        /\ IF ~IsMaxCount(b)
           THEN /\ depth_' = d
                /\ IsSuccessor(b, CellAt(buffer_', d, i))
                /\ \A j \in 0..(size_ - 1) :
                     j # i => CellAt(buffer_', d, j) = CellAt(buffer_, d, j)
           ELSE /\ depth_' = 2 * d
                /\ CellAt(buffer_', 2 * d, i) = Zeros(d) \o <<1>> \o Zeros(d - 1)
                /\ \A j \in 0..(size_ - 1) :
                     j # i => CellAt(buffer_', 2 * d, j) = CellAt(buffer_, d, j) \o Zeros(d)

\* on a storage constructed at 1-byte depth every bin holds its number of
\* increase calls, at the narrowest depth reached by promotion
CountsCalls ==
  fresh =>
    /\ \A i \in 0..(size_ - 1) :
         /\ CellAt(buffer_, depth_, i) = NatToBytes(ncalls[i + 1], depth_)
         /\ value(This, i) = CountToDouble(NatToBytes(ncalls[i + 1], 8))
    /\ depth_ = IF \A k \in 1..size_ : ncalls[k] <= 255 THEN 1 ELSE 2

\* C4: increase(i) at an integer depth of 1, 2 or 4 bytes increments a cell
\* below the maximum in place and leaves depth unchanged, and on a cell at the
\* maximum promotes the storage to the next width, keeps every other bin and
\* leaves bin i one above the old maximum; a storage constructed at 1-byte
\* depth holds in every bin the number of increase calls of that bin
C4_IncreaseCountsAndPromotes == []CountsCalls /\ [][IncreaseStep]_vars

\* 300 increases of bin 0 of a fresh storage, another bin increased too
C4_Witness ==
  /\ fresh /\ slast.op = "increase" /\ size_ >= 2
  /\ ncalls[1] = 300 /\ ncalls[2] > 0
  /\ depth_ = 2
  /\ CellAt(buffer_, 2, 0) = <<44, 1>>

\* C9: a save succeeds, and a load of the saved stream succeeds and gives a
\* storage equal to the saved one, at every depth including the lazy depth 0
C9_SaveLoadRoundTrip ==
  /\ slast.op = "save" => slast.err = "none"
  /\ slast.op = "load" => slast.err = "none" /\ StoreEqual(other, stream.src)

\* the round trip of a storage whose buffer is allocated
RoundTripAllocated ==
  /\ slast.op = "save" /\ depth_ # 0 => slast.err = "none"
  /\ slast.op = "load" =>
       /\ slast.err = "none"
       /\ other = stream.src

\* a zero-suppressed body was loaded
LoadedZeroSuppressed ==
  slast.op = "load" /\ stream.data[3] /\ other.size = MaxBins /\ other.depth = 1

\* C10: no increase(i) or increase(i, w) call lowers depth, and no call on a
\* storage at the weighted depth changes depth
C10_DepthMonotoneWeightedStays ==
  [][/\ depth_' >= depth_
     /\ depth_ = SizeofWtype => depth_' = SizeofWtype]_vars

\* depth is never lowered by a call
DepthNeverDecreases == [][depth_' >= depth_]_vars

\* a fill of a rank-1 histogram over a growable axis: the axis is extended just
\* far enough to cover the value, every old bin is found at its index moved up
\* by the distance the lower edge moved down, the bin of the value is one
\* above its old count (one if the bin is new), every other new bin is zero
\* and nothing is written outside the new storage
GrowFillStep ==
  (last'.op = "fill" /\ Len(axes_) = 1 /\ axes_[1].grow /\ Len(last'.args) = 1) =>
    \A a \in {axes_[1]} : \A b \in {axes_'[1]} : \A v \in {last'.args[1]} :
    \A down \in {0 - Min(last'.shifts[1], 0)} :
      /\ last'.err = "none"
      /\ b.min = Min(a.min, v)
      /\ b.min + b.n = Max(a.min + a.n, v + 1)
      /\ down = a.min - b.min
      /\ Len(storage_') = b.n
      /\ \A j \in 0..(a.n - 1) :
           storage_'[j + down + 1] = storage_[j + 1] + Bool2Int(a.min + j = v)
      /\ \A j \in 0..(b.n - 1) :
           (j < down \/ j >= down + a.n) =>
             storage_'[j + 1] = Bool2Int(b.min + j = v)

RECURSIVE SumTo(_, _)
SumTo(seq, k) == IF k = 0 THEN 0 ELSE seq[k] + SumTo(seq, k - 1)

\* the bins cover the axis and together hold one count per fill
BinsHoldFills ==
  /\ Len(axes_) = 1 /\ Len(storage_) = axes_[1].n
  /\ axes_[1].min <= 0 /\ 0 < axes_[1].min + axes_[1].n
  /\ SumTo(storage_, Len(storage_)) = nops

IncreaseChangesBinOnly ==
  (slast'.op = "increase" /\ ~corrupt /\ depth_ \in {0, SizeofWtype}) =>
    \A i \in {slast'.i} : \A new \in {Store(size_', depth_', buffer_')} :
      /\ slast'.err = "none"
      /\ ~corrupt'
      /\ Len(buffer_') = size_' * depth_'
      /\ depth_ = 0 => depth_' = 1 /\ value(new, i) = DoubleOne
      /\ depth_ = SizeofWtype => depth_' = SizeofWtype
      /\ value(new, i) = DoubleAdd(value(This, i), DoubleOne)
      /\ \A j \in 0..(size_ - 1) :
           j # i => /\ value(new, j) = value(This, j)
                    /\ variance(new, j) = variance(This, j)

\* C12: for a storage at depth 0 or at the weighted depth, increase(i) changes
\* bin i only: value(i) grows by exactly 1 (from depth 0 the storage becomes
\* 1-byte deep with value(i) = 1), the value and variance of every other bin
\* are unchanged and nothing outside the buffer is written
C12_IncreaseChangesBinOnly == [][IncreaseChangesBinOnly]_vars

\* the part of C12 about depth 0: the call returns and writes inside the buffer
IncreaseFromLazyStaysInBuffer ==
  [][(slast'.op = "increase" /\ ~corrupt /\ depth_ = 0) =>
       slast'.err # "crash" /\ ~corrupt']_vars

\* the part of C12 about the weighted depth: a call that returns at the
\* weighted depth has added exactly one to the sum of weights of bin i
IncreaseWeightedAddsOne ==
  [][(slast'.op = "increase" /\ ~corrupt /\ depth_ = SizeofWtype
        /\ slast'.err = "none" /\ depth_' = SizeofWtype) =>
       value(Store(size_', depth_', buffer_'), slast'.i)
         = DoubleAdd(value(This, slast'.i), DoubleOne)]_vars

\* the call just made ran into default: BOOST_ASSERT(!"invalid depth")
DefaultReached == slast.op = "increase" /\ slast.err \in {"abort", "assert_skipped"}

\* C13: for a storage at any valid depth and any content of cell i, the cell
\* at the maximum of every integer width included, increase(i) with i < size
\* completes without reaching the default branch of the depth switch
C13_DefaultNeverReached ==
  [][(slast'.op = "increase" /\ ~corrupt /\ ValidDepth(depth_) /\ slast'.i < size_) =>
       ~DefaultReached']_vars

\* at the depths of 1, 2 and 4 bytes the call returns from one of the cases
NarrowDepthsReturn ==
  [][(slast'.op = "increase" /\ ~corrupt /\ depth_ \in {1, 2, 4}) =>
       slast'.err = "none"]_vars

\* at the depth of 8 bytes the call reaches default exactly when cell i holds
\* the maximum
WidestDepthReachesDefaultAtMax ==
  [][(slast'.op = "increase" /\ ~corrupt /\ depth_ = 8) =>
       (DefaultReached' <=> IsMaxCount(CellAt(buffer_, 8, slast'.i)))]_vars

====
